---------------------------- MODULE Spec2Model ----------------------------
(***************************************************************************)
(* Verification model of the SportsAnalytics scripts.                      *)
(*                                                                         *)
(* The repository is a set of independent command-line scripts.  Each      *)
(* script is modelled as its own state machine over its own variables and  *)
(* has its own specification (SpecDownload, SpecCbb, SpecBlown, SpecYear,  *)
(* ...); the variables of the other scripts stay at their initial value    *)
(* under a given specification.                                            *)
(***************************************************************************)
EXTENDS Integers, Sequences, FiniteSets, TLC

VARIABLES
    \* ---- hw2-download.py ----
    dl_pc,              \* "idle" | "loop" | "done" | "crashed"
    dl_runs,            \* number of runs of the script started so far
    game_urls,          \* scrape_all_games: list returned by get_game_urls
    dl_i,               \* scrape_all_games: 1-based position of the for loop
    processed_games,    \* processed_games.txt: [exists, lines]
    all_play_data,      \* scrape_all_games: plays accumulated in the run
    play_by_play_csv,   \* play_by_play.csv: [exists, rows]
    dl_lastKind,        \* kind of the latest HTTP request of the run
    dl_slept,           \* seconds slept since the latest HTTP request
    dl_event            \* what the latest step of the script did

dlVars == <<dl_pc, dl_runs, game_urls, dl_i, processed_games, all_play_data,
            play_by_play_csv, dl_lastKind, dl_slept, dl_event>>

VARIABLES
    \* ---- cbb_stat_scraper.py ----
    cbb_pc,             \* "idle" | "loop" | "done" | "crashed"
    cbb_runs,           \* number of runs of main started so far
    cbb_input,          \* rows of player_names_sorted.csv read by the run
    cbb_idx,            \* main: 1-based position of the iterrows loop
    processed_players,  \* processed_players.csv: [exists, names]
    player_stats,       \* player_stats.csv: [exists, rows]
    first_player,       \* main: first_player
    current_letter,     \* main: current_letter
    soup,               \* main: letter whose index page soup holds
    cbb_lastKind,       \* kind of the latest HTTP request of the run
    cbb_slept,          \* seconds slept since the latest HTTP request
    cbb_index,          \* index page requests of the run: the letters whose
                        \* request failed, and the latest request
    cbb_event           \* what the latest step of the script did

cbbVars == <<cbb_pc, cbb_runs, cbb_input, cbb_idx, processed_players,
             player_stats, first_player, current_letter, soup, cbb_lastKind,
             cbb_slept, cbb_index, cbb_event>>

VARIABLES
    \* ---- createCSV.py and calculateBlownGames.py ----
    bg_stage,           \* "idle" | "next" (between files) | "listed" (a
                        \* file awaits calculate_blown_games)
    bg_nfiles,          \* files handed to calculate_blown_games so far
    bg_file,            \* the file of the directory being looked at
    bg_lower,           \* lower_wp_threshold, in percent
    bg_upper,           \* upper_wp_threshold, in percent
    games_between_thresholds,   \* calculate_blown_games: per-team count
    games_won,          \* calculate_blown_games: per-team count
    bg_event            \* counts before the latest file, and what was printed

bgVars == <<bg_stage, bg_nfiles, bg_file, bg_lower, bg_upper,
            games_between_thresholds, games_won, bg_event>>

VARIABLES
    \* ---- year_to_year_download.py ----
    yy_pc,              \* "idle" | "loop" | "done" | "rejected"
    start_year,         \* main: start_year
    end_year,           \* main: end_year
    yy_year,            \* main: the year the for loop is at
    all_data,           \* main: all_data
    rooks_csv,          \* rooks<start>-<end>.csv: [exists, rows]
    yy_pages,           \* per year: what its page request gave
    yy_slept,           \* seconds slept since the latest HTTP request
    yy_lastKind,        \* kind of the latest HTTP request of the run
    yy_event            \* the HTTP requests of the latest step

yyVars == <<yy_pc, start_year, end_year, yy_year, all_data, rooks_csv,
            yy_pages, yy_slept, yy_lastKind, yy_event>>

VARIABLES
    \* ---- hw2-createModel.py: split_data_by_inning ----
    sp_stage,           \* "rows" | "split"
    sp_model_data,      \* model rows handed to the split functions
    sp_split,           \* result of split_data_by_inning: [early, late]
    sp_split_improved   \* result of split_inning_data: [early, late]

spVars == <<sp_stage, sp_model_data, sp_split, sp_split_improved>>

VARIABLES
    \* ---- hw2-createModel.py: create_model_data ----
    cm_pc,              \* "idle" | "loop" | "done" | "failed"
    cm_games,           \* number of games among the rows read so far
    cm_read,            \* number of rows of play_by_play_data read so far
    previous_row,       \* process_play_by_play: previous_row, [isNone, row]
    first_team,         \* process_play_by_play: first_team, "None" or a team
    model_data,         \* process_play_by_play: model_data
    end_of_game_count,  \* process_play_by_play: end_of_game_count
    cm_printed          \* the printed total: [printed, count]

cmVars == <<cm_pc, cm_games, cm_read, previous_row, first_team, model_data,
            end_of_game_count, cm_printed>>

VARIABLES
    \* ---- nomentum.py ----
    nm_stage,           \* "rows" | "filtered"
    nm_data,            \* the concatenated play-by-play DataFrame, a list of rows
    nm_args,            \* filter_drives arguments of the call
    nm_filtered        \* filter_drives: filtered_data

nmVars == <<nm_stage, nm_data, nm_args, nm_filtered>>

VARIABLES
    \* ---- sacrifice_bunt_analysis.py ----
    bt_stage,           \* "rows" | "categorized" | "calculated"
    play_by_play_data,  \* the loaded DataFrame, a list of rows
    bt_situations,      \* categorize_and_log_bunt_situations: bunt_data and totals
    bt_probabilities   \* calculate_bunt_probabilities_with_assumptions: counts

btVars == <<bt_stage, play_by_play_data, bt_situations, bt_probabilities>>

VARIABLES
    \* ---- pullResultLogit.py ----
    op_stage,           \* "setup" | "done" | "crashed"
    op_dir,             \* the CSV files of the directory, each a list of rows
    op_arg,             \* sys.argv[1]: "none", "file" or "directory"
    op_printed         \* the OPS results printed, one record per file

opVars == <<op_stage, op_dir, op_arg, op_printed>>

VARIABLES
    \* ---- runscoring.py ----
    rs_pc,              \* "reading" | "printed"
    rs_lines,           \* the lines of gl2023.txt read so far
    teams_data,         \* teams_data: per team, in insertion order, its runs
    rs_printed         \* the lines printed, one record per team

rsVars == <<rs_pc, rs_lines, teams_data, rs_printed>>

VARIABLES
    \* ---- hw2-download.py to hw2-createModel.py: play_by_play.csv ----
    ho_stage,           \* "rows" | "written" | "read"
    ho_data,            \* the list of plays handed to write_to_csv
    ho_file,            \* play_by_play.csv: the characters of the file
    ho_read            \* create_model_data: play_by_play_data

hoVars == <<ho_stage, ho_data, ho_file, ho_read>>

vars == <<dlVars, cbbVars, bgVars, yyVars, spVars, cmVars, nmVars, btVars,
          opVars, rsVars, hoVars>>

\* The variables a script leaves alone: those of the other scripts.
dlOthers == <<cbbVars, bgVars, yyVars, spVars, cmVars, nmVars, btVars,
              opVars, rsVars, hoVars>>
cbbOthers == <<dlVars, bgVars, yyVars, spVars, cmVars, nmVars, btVars,
               opVars, rsVars, hoVars>>
bgOthers == <<dlVars, cbbVars, yyVars, spVars, cmVars, nmVars, btVars,
              opVars, rsVars, hoVars>>
yyOthers == <<dlVars, cbbVars, bgVars, spVars, cmVars, nmVars, btVars,
              opVars, rsVars, hoVars>>
spOthers == <<dlVars, cbbVars, bgVars, yyVars, cmVars, nmVars, btVars,
              opVars, rsVars, hoVars>>
cmOthers == <<dlVars, cbbVars, bgVars, yyVars, spVars, nmVars, btVars,
              opVars, rsVars, hoVars>>
nmOthers == <<dlVars, cbbVars, bgVars, yyVars, spVars, cmVars, btVars,
              opVars, rsVars, hoVars>>
btOthers == <<dlVars, cbbVars, bgVars, yyVars, spVars, cmVars, nmVars,
              opVars, rsVars, hoVars>>
opOthers == <<dlVars, cbbVars, bgVars, yyVars, spVars, cmVars, nmVars,
              btVars, rsVars, hoVars>>
rsOthers == <<dlVars, cbbVars, bgVars, yyVars, spVars, cmVars, nmVars,
              btVars, opVars, hoVars>>
hoOthers == <<dlVars, cbbVars, bgVars, yyVars, spVars, cmVars, nmVars,
              btVars, opVars, rsVars>>

Range(s) == {s[k] : k \in 1..Len(s)}

(***************************************************************************)
(*                          hw2-download.py                                *)
(***************************************************************************)

\* Bounds of the model.
NumUrls == 2            \* distinct box-score URLs the schedule page may list
MaxSchedule == 2        \* longest schedule (number of Boxscore links)
MaxRuns == 2            \* runs of the script sharing one processed_games.txt
MaxPlayRows == 2        \* most play rows one play-by-play table yields

\* time.sleep(5)
SleepSeconds == 5

Urls == 1..NumUrls

\* The lists get_game_urls can return: any list of box-score URLs, in page
\* order, repeats included.
Schedules == UNION {[1..n -> Urls] : n \in 0..MaxSchedule}

\* What requests.get + the parse of one box-score page can produce:
\*   "plays"     a play_by_play table whose rows yield play dictionaries
\*   "empty"     a play_by_play table with no row of 10 or more cells
\*   "none"      no play_by_play table (scrape_single_game returns None;
\*               this is also what an HTTP error page yields, the status
\*               code is never looked at)
\*   "exception" requests.get raises
PageOutcomes == {"plays", "empty", "none", "exception"}

\* extract_inning_info: the play dictionaries of one table, in row order.
ExtractInningInfo(url, n) == [k \in 1..n |-> [game |-> url, play |-> k]]

\* write_to_csv: one row per play, Index counting from 1.
WriteToCsv(data) == [k \in 1..Len(data) |-> [Index |-> k, row |-> data[k]]]

\* is_url_processed with the check dropped: every URL is scraped again.
IsUrlProcessed_Never(url, file) == FALSE

\* is_url_processed: the URL is one of the lines of the file; a missing file
\* means not processed.
IsUrlProcessed(url, file) ==
    IF file.exists THEN url \in Range(file.lines) ELSE FALSE

\* mark_url_as_processed: append one line (creating the file).
MarkUrlAsProcessed(url, file) ==
    [exists |-> TRUE, lines |-> Append(file.lines, url)]

\* The sleep placed inside the "if table:" branch only.
SleepAfter_OnlyIfTable(outcome) ==
    IF outcome \in {"plays", "empty"} THEN SleepSeconds ELSE 0

\* Seconds slept at the end of a loop iteration that issued a request and
\* returned: time.sleep(5) follows both branches of "if table:".
SleepAfter(outcome) == SleepSeconds

NoEvent == [kind |-> "none", url |-> 0, inFile |-> FALSE, outcome |-> "none",
            prevKind |-> "none", gap |-> 0]

DlInit ==
    /\ dl_pc = "idle"
    /\ dl_runs = 0
    /\ game_urls = <<>>
    /\ dl_i = 1
    /\ processed_games = [exists |-> FALSE, lines |-> <<>>]
    /\ all_play_data = <<>>
    /\ play_by_play_csv = [exists |-> FALSE, rows |-> <<>>]
    /\ dl_lastKind = "none"
    /\ dl_slept = 0
    /\ dl_event = NoEvent

\* A run starts: scrape_all_games calls get_game_urls (one HTTP request for
\* the schedule page) and enters the loop with an empty all_play_data.
DlStartRun ==
    /\ dl_pc \in {"idle", "done", "crashed"}
    /\ dl_runs < MaxRuns
    /\ dl_runs' = dl_runs + 1
    /\ dl_i' = 1
    /\ all_play_data' = <<>>
    /\ dl_lastKind' = "schedule"
    /\ dl_slept' = 0
    /\ \E ok \in BOOLEAN :
         /\ dl_event' = [kind |-> "schedule", url |-> 0, inFile |-> FALSE,
                         outcome |-> IF ok THEN "plays" ELSE "exception",
                         prevKind |-> "none", gap |-> 0]
         /\ IF ok
            THEN /\ \E s \in Schedules : game_urls' = s
                 /\ dl_pc' = "loop"
            ELSE /\ game_urls' = <<>>
                 /\ dl_pc' = "crashed"
    /\ UNCHANGED <<processed_games, play_by_play_csv>>
    /\ UNCHANGED dlOthers

\* Loop iteration, "if is_url_processed(game_url): continue".
DlSkipGame ==
    /\ dl_pc = "loop"
    /\ dl_i <= Len(game_urls)
    /\ IsUrlProcessed(game_urls[dl_i], processed_games)
    /\ dl_i' = dl_i + 1
    /\ dl_event' = [kind |-> "skip", url |-> game_urls[dl_i],
                    inFile |-> processed_games.exists
                               /\ game_urls[dl_i] \in Range(processed_games.lines),
                    outcome |-> "none", prevKind |-> dl_lastKind,
                    gap |-> dl_slept]
    /\ UNCHANGED <<dl_pc, dl_runs, game_urls, processed_games, all_play_data,
                   play_by_play_csv, dl_lastKind, dl_slept>>
    /\ UNCHANGED dlOthers

\* Loop iteration that scrapes: scrape_single_game (one HTTP request), then
\* extract_inning_info, all_play_data.extend, mark_url_as_processed and the
\* sleep.  An exception of requests.get is not caught anywhere: it ends the
\* run before write_to_csv.
DlScrapeGame ==
    /\ dl_pc = "loop"
    /\ dl_i <= Len(game_urls)
    /\ ~IsUrlProcessed(game_urls[dl_i], processed_games)
    /\ \E outcome \in PageOutcomes, n \in 1..MaxPlayRows :
         LET url == game_urls[dl_i] IN
         /\ (outcome # "plays") => (n = 1)
         /\ dl_event' = [kind |-> "scrape", url |-> url,
                         inFile |-> processed_games.exists
                                    /\ url \in Range(processed_games.lines),
                         outcome |-> outcome, prevKind |-> dl_lastKind,
                         gap |-> dl_slept]
         /\ dl_lastKind' = "box"
         /\ IF outcome = "exception"
            THEN /\ dl_pc' = "crashed"
                 /\ dl_slept' = 0
                 /\ UNCHANGED <<dl_i, processed_games, all_play_data>>
            ELSE /\ dl_pc' = "loop"
                 /\ dl_i' = dl_i + 1
                 /\ dl_slept' = SleepAfter(outcome)
                 /\ IF outcome = "plays"
                    THEN /\ all_play_data' =
                               all_play_data \o ExtractInningInfo(url, n)
                         /\ processed_games' =
                               MarkUrlAsProcessed(url, processed_games)
                    ELSE UNCHANGED <<processed_games, all_play_data>>
    /\ UNCHANGED <<dl_runs, game_urls, play_by_play_csv>>
    /\ UNCHANGED dlOthers

\* After the loop: write_to_csv(all_play_data) when there is any data.
DlFinish ==
    /\ dl_pc = "loop"
    /\ dl_i > Len(game_urls)
    /\ dl_pc' = "done"
    /\ play_by_play_csv' =
          IF all_play_data # <<>>
          THEN [exists |-> TRUE, rows |-> WriteToCsv(all_play_data)]
          ELSE play_by_play_csv
    /\ dl_event' = [NoEvent EXCEPT !.kind = "finish"]
    /\ UNCHANGED <<dl_runs, game_urls, dl_i, processed_games, all_play_data,
                   dl_lastKind, dl_slept>>
    /\ UNCHANGED dlOthers

DlNext == DlStartRun \/ DlSkipGame \/ DlScrapeGame \/ DlFinish

(***************************************************************************)
(*              496_Project/Code/2_College Data/cbb_stat_scraper.py        *)
(***************************************************************************)

\* Bounds of the model.
MaxInput == 2           \* most rows of player_names_sorted.csv
CbbMaxRuns == 2         \* runs of main sharing processed_players.csv

\* random.uniform(5, 10)
SleepMin == 5
SleepMax == 10

\* The players an input row can name: the special-cased player, another
\* player with the same first letter of the last name, and one with another.
Players == {"Larry Nance", "Pete Nance", "Ochai Agbaji"}

LastNameLetter(p) == IF p = "Ochai Agbaji" THEN "a" ELSE "n"

Inputs == UNION {[1..n -> Players] : n \in 0..MaxInput}

\* Result of one profile page: status 200 with a career row, status 200
\* without one (extract_career_stats returns None), another status code, or
\* requests.get raising.
ProfileOutcomes == {"stats", "nostats", "non200", "exception"}

\* Result of one letter index page.
IndexOutcomes == {"ok", "non200", "exception"}

\* is_player_processed: the name is in the Player column of the file; a
\* missing file means not processed.
IsPlayerProcessed(name, file) ==
    IF file.exists THEN name \in Range(file.names) ELSE FALSE

\* mark_player_processed: create the file with its header when missing, then
\* append the name.
MarkPlayerProcessed(name, file) ==
    [exists |-> TRUE, names |-> Append(file.names, name)]

\* save_player_data: with first_player the file is rewritten (header, then
\* the row), otherwise the row is appended.
SavePlayerData(name, file, first) ==
    IF first
    THEN [exists |-> TRUE, rows |-> <<name>>]
    ELSE [exists |-> TRUE, rows |-> Append(file.rows, name)]

Req(kind, prev, gap) == [kind |-> kind, prev |-> prev, gap |-> gap]

\* No index page request, in cbb_index and in cbb_event.
NoIndex == [requested |-> FALSE, letter |-> "", status |-> "none",
            wasFailed |-> FALSE, prevLetter |-> "", prevStatus |-> "none"]

CbbNoEvent == [kind |-> "none", player |-> "", wasProcessed |-> FALSE,
               reqs |-> <<>>, appended |-> FALSE, index |-> NoIndex]

\* "current_letter = first_letter" left out after a successful index request.
LetterAfterIndex_Kept(current, first_letter) == current

\* current_letter after the index page of first_letter came back with
\* status 200.
LetterAfterIndex(current, first_letter) == first_letter

CbbInit ==
    /\ cbb_pc = "idle"
    /\ cbb_runs = 0
    /\ cbb_input = <<>>
    /\ cbb_idx = 1
    /\ processed_players = [exists |-> FALSE, names |-> <<>>]
    /\ player_stats = [exists |-> FALSE, rows |-> <<>>]
    /\ first_player = TRUE
    /\ current_letter = ""
    /\ soup = "unbound"
    /\ cbb_lastKind = "none"
    /\ cbb_slept = 0
    /\ cbb_index = [failed |-> {}, letter |-> "", status |-> "none"]
    /\ cbb_event = CbbNoEvent

\* main up to the loop: the input file is read (a missing input file ends
\* the run at once), first_player and current_letter are set.
CbbStartRun ==
    /\ cbb_pc \in {"idle", "done", "crashed"}
    /\ cbb_runs < CbbMaxRuns
    /\ cbb_runs' = cbb_runs + 1
    /\ cbb_idx' = 1
    /\ current_letter' = ""
    /\ soup' = "unbound"
    /\ cbb_lastKind' = "none"
    /\ cbb_slept' = 0
    /\ cbb_index' = [failed |-> {}, letter |-> "", status |-> "none"]
    /\ cbb_event' = [CbbNoEvent EXCEPT !.kind = "start"]
    /\ \E inputExists \in BOOLEAN :
         IF inputExists
         THEN /\ \E inp \in Inputs : cbb_input' = inp
              /\ first_player' = ~player_stats.exists
              /\ cbb_pc' = "loop"
         ELSE /\ cbb_input' = <<>>
              /\ first_player' = first_player
              /\ cbb_pc' = "done"
    /\ UNCHANGED <<processed_players, player_stats>>
    /\ UNCHANGED cbbOthers

\* Effect of a fetched profile page on the two files and on first_player
\* (lines 140-153 and 178-191 are the same code).
CbbProfileEffect(name, outcome) ==
    IF outcome = "stats"
    THEN /\ player_stats' = SavePlayerData(name, player_stats, first_player)
         /\ processed_players' = MarkPlayerProcessed(name, processed_players)
         /\ first_player' = FALSE
    ELSE UNCHANGED <<player_stats, processed_players, first_player>>

\* Loop iteration for the row "Larry Nance": the fixed profile URL is
\* requested before is_player_processed is consulted, and the iteration ends
\* with continue, before the sleep.
CbbLarryNance ==
    /\ cbb_pc = "loop"
    /\ cbb_idx <= Len(cbb_input)
    /\ cbb_input[cbb_idx] = "Larry Nance"
    /\ \E outcome \in ProfileOutcomes :
         LET name == cbb_input[cbb_idx] IN
         /\ cbb_event' = [kind |-> "nance", player |-> name,
                          wasProcessed |-> processed_players.exists
                              /\ name \in Range(processed_players.names),
                          reqs |-> <<Req("profile", cbb_lastKind, cbb_slept)>>,
                          appended |-> outcome = "stats", index |-> NoIndex]
         /\ cbb_lastKind' = "profile"
         /\ cbb_slept' = 0
         /\ IF outcome = "exception"
            THEN /\ cbb_pc' = "crashed"
                 /\ UNCHANGED <<cbb_idx, player_stats, processed_players,
                                first_player>>
            ELSE /\ cbb_pc' = "loop"
                 /\ cbb_idx' = cbb_idx + 1
                 /\ CbbProfileEffect(name, outcome)
    /\ UNCHANGED <<cbb_runs, cbb_input, current_letter, soup, cbb_index>>
    /\ UNCHANGED cbbOthers

\* Loop iteration, "if is_player_processed(...): continue".
CbbSkipPlayer ==
    /\ cbb_pc = "loop"
    /\ cbb_idx <= Len(cbb_input)
    /\ cbb_input[cbb_idx] # "Larry Nance"
    /\ IsPlayerProcessed(cbb_input[cbb_idx], processed_players)
    /\ cbb_idx' = cbb_idx + 1
    /\ cbb_event' = [kind |-> "skip", player |-> cbb_input[cbb_idx],
                     wasProcessed |-> processed_players.exists
                         /\ cbb_input[cbb_idx] \in Range(processed_players.names),
                     reqs |-> <<>>, appended |-> FALSE, index |-> NoIndex]
    /\ UNCHANGED <<cbb_pc, cbb_runs, cbb_input, processed_players,
                   player_stats, first_player, current_letter, soup,
                   cbb_lastKind, cbb_slept, cbb_index>>
    /\ UNCHANGED cbbOthers

\* Loop iteration for any other unprocessed player: the letter index page is
\* requested when the letter differs from current_letter (a status other
\* than 200 ends the iteration with continue, before the sleep), the profile
\* link is searched in soup, the profile page is requested when found, and
\* the iteration ends with time.sleep(random.uniform(5, 10)).
CbbScrapePlayer ==
    /\ cbb_pc = "loop"
    /\ cbb_idx <= Len(cbb_input)
    /\ cbb_input[cbb_idx] # "Larry Nance"
    /\ ~IsPlayerProcessed(cbb_input[cbb_idx], processed_players)
    /\ \E index \in IndexOutcomes, found \in BOOLEAN,
          outcome \in ProfileOutcomes, d \in SleepMin..SleepMax :
         LET name == cbb_input[cbb_idx]
             letter == LastNameLetter(name)
             needIndex == letter # current_letter
             indexReq == IF needIndex
                         THEN <<Req("index", cbb_lastKind, cbb_slept)>>
                         ELSE <<>>
             indexFailed == needIndex /\ index # "ok"
             profileReq ==
                 IF found
                 THEN <<Req("profile",
                            IF needIndex THEN "index" ELSE cbb_lastKind,
                            IF needIndex THEN 0 ELSE cbb_slept)>>
                 ELSE <<>>
             wasProcessed == processed_players.exists
                                /\ name \in Range(processed_players.names)
             indexEvent ==
                 IF needIndex
                 THEN [requested |-> TRUE, letter |-> letter,
                       status |-> index,
                       wasFailed |-> letter \in cbb_index.failed,
                       prevLetter |-> cbb_index.letter,
                       prevStatus |-> cbb_index.status]
                 ELSE NoIndex
         IN
         /\ cbb_index' =
               IF needIndex
               THEN [failed |-> IF index = "non200"
                                THEN cbb_index.failed \cup {letter}
                                ELSE cbb_index.failed,
                     letter |-> letter, status |-> index]
               ELSE cbb_index
         \* one representative for the choices a branch does not read
         /\ ~needIndex => index = "ok"
         /\ indexFailed => (~found /\ outcome = "stats" /\ d = SleepMin)
         /\ ~found => outcome = "stats"
         /\ (found /\ outcome = "exception") => d = SleepMin
         /\ IF indexFailed
            THEN /\ cbb_event' = [kind |-> "player", player |-> name,
                                  wasProcessed |-> wasProcessed,
                                  reqs |-> indexReq, appended |-> FALSE,
                                  index |-> indexEvent]
                 /\ cbb_lastKind' = "index"
                 /\ cbb_slept' = 0
                 /\ IF index = "exception"
                    THEN cbb_pc' = "crashed" /\ cbb_idx' = cbb_idx
                    ELSE cbb_pc' = "loop" /\ cbb_idx' = cbb_idx + 1
                 /\ UNCHANGED <<current_letter, soup, player_stats,
                                processed_players, first_player>>
            ELSE /\ current_letter' =
                       IF needIndex
                       THEN LetterAfterIndex(current_letter, letter)
                       ELSE current_letter
                 /\ soup' = IF needIndex THEN letter ELSE soup
                 /\ cbb_event' = [kind |-> "player", player |-> name,
                                  wasProcessed |-> wasProcessed,
                                  reqs |-> indexReq \o profileReq,
                                  appended |-> found /\ outcome = "stats",
                                  index |-> indexEvent]
                 /\ cbb_lastKind' = IF found THEN "profile"
                                    ELSE IF needIndex THEN "index"
                                    ELSE cbb_lastKind
                 /\ IF found /\ outcome = "exception"
                    THEN /\ cbb_pc' = "crashed"
                         /\ cbb_idx' = cbb_idx
                         /\ cbb_slept' = 0
                         /\ UNCHANGED <<player_stats, processed_players,
                                        first_player>>
                    ELSE /\ cbb_pc' = "loop"
                         /\ cbb_idx' = cbb_idx + 1
                         /\ cbb_slept' =
                               IF found \/ needIndex THEN d ELSE cbb_slept + d
                         /\ IF found
                            THEN CbbProfileEffect(name, outcome)
                            ELSE UNCHANGED <<player_stats, processed_players,
                                             first_player>>
    /\ UNCHANGED <<cbb_runs, cbb_input>>
    /\ UNCHANGED cbbOthers

\* The loop is exhausted and main returns.
CbbFinish ==
    /\ cbb_pc = "loop"
    /\ cbb_idx > Len(cbb_input)
    /\ cbb_pc' = "done"
    /\ cbb_event' = [CbbNoEvent EXCEPT !.kind = "finish"]
    /\ UNCHANGED <<cbb_runs, cbb_input, cbb_idx, processed_players,
                   player_stats, first_player, current_letter, soup,
                   cbb_lastKind, cbb_slept, cbb_index>>
    /\ UNCHANGED cbbOthers

CbbNext ==
    CbbStartRun \/ CbbLarryNance \/ CbbSkipPlayer \/ CbbScrapePlayer
        \/ CbbFinish


(***************************************************************************)
(*                 createCSV.py and calculateBlownGames.py                 *)
(*                                                                         *)
(* A game file is written by one iteration of the groupby loop of          *)
(* create_csv_files and read by one iteration of the listdir loop of       *)
(* calculate_blown_games.  The iterations of either loop share nothing but *)
(* the two count dictionaries, so the files are passed through one at a    *)
(* time.  Win probabilities and thresholds are in percent.                 *)
(***************************************************************************)

\* Bounds of the model.
MaxPlays == 2           \* most plays of one game / rows of one file
MaxFiles == 2           \* most files of the directory

Teams == {"A", "B"}
Other(t) == IF t = "A" THEN "B" ELSE "A"
\* posteam_score and defteam_score of a play: the offense level with the
\* defense, ahead of it, or behind it.
ScorePairs == {<<0, 0>>, <<1, 0>>, <<0, 1>>}
WpValues == {20, 50}
ThresholdPairs == {<<40, 60>>, <<0, 30>>}
Columns == {"wp", "posteam", "winner"}

\* ---- createCSV.py ----

\* One play of nfl.import_pbp_data, play_id aside.
PlayData ==
    {[posteam |-> t, posteam_score |-> sc[1], defteam_score |-> sc[2],
      wp |-> w] : t \in Teams, sc \in ScorePairs, w \in WpValues}

WithPlayId(p, id) ==
    [play_id |-> id, posteam |-> p.posteam, posteam_score |-> p.posteam_score,
     defteam_score |-> p.defteam_score, wp |-> p.wp]

\* The orders in which the frame can hold the n plays of a game.
Orders(n) == {f \in [1..n -> 1..n] : {f[k] : k \in 1..n} = 1..n}

\* The plays of one game_id, in the order of the frame.
RawGames ==
    UNION {{[k \in 1..n |-> WithPlayId(plays[k], ids[k])] :
               plays \in [1..n -> PlayData], ids \in Orders(n)} :
           n \in 1..MaxPlays}

\* game_data.sort_values(by='play_id')
SortByPlayId(g) ==
    [k \in 1..Len(g) |->
        g[CHOOSE j \in 1..Len(g) :
            Cardinality({m \in 1..Len(g) : g[m].play_id < g[j].play_id}) = k - 1]]

\* winner_value: from the two scores of the last play, whose offense is the
\* "posteam" compared; one value for every row of the game
\* ("game_data['winner'] = winner_value").
WinnerValue(last_play) ==
    IF last_play.posteam_score > last_play.defteam_score THEN 1 ELSE 0

OutputRow(play, winner_value) ==
    [wp |-> play.wp, posteam |-> play.posteam,
     defteam |-> Other(play.posteam), posteam_score |-> play.posteam_score,
     defteam_score |-> play.defteam_score, winner |-> winner_value]

\* Body of the groupby loop: the game's file.
CreateCsvFile(g) ==
    LET game_data == SortByPlayId(g)
        last_play == game_data[Len(game_data)]
    IN [csv |-> TRUE, readable |-> TRUE, cols |-> Columns,
        wp_numeric |-> TRUE, origin |-> "createCSV",
        rows |-> [k \in 1..Len(game_data) |->
                     OutputRow(game_data[k], WinnerValue(last_play))]]

\* ---- files of the directory that createCSV.py did not write ----

\* Rows of such a file; the cells of a column the file does not have, and
\* the wp cells of a column that is not numeric, are never read as numbers
\* and carry one fixed value.
ForeignRows(cols, numeric) ==
    [wp : IF "wp" \in cols /\ numeric THEN WpValues ELSE {20},
     posteam : IF "posteam" \in cols THEN Teams ELSE {"A"},
     defteam : {"B"}, posteam_score : {0}, defteam_score : {0},
     winner : IF "winner" \in cols THEN {0, 1} ELSE {0}]

ForeignFile(csv, readable, cols, numeric, rows) ==
    [csv |-> csv, readable |-> readable, cols |-> cols,
     wp_numeric |-> numeric, origin |-> "other", rows |-> rows]

\* A file that is no .csv, a .csv that pd.read_csv cannot read, and the
\* readable .csv files: all columns or one of them missing, the wp column
\* numeric or text.
ForeignFiles ==
    {ForeignFile(FALSE, TRUE, Columns, TRUE, <<>>),
     ForeignFile(TRUE, FALSE, Columns, TRUE, <<>>)}
    \cup
    UNION {UNION {{ForeignFile(TRUE, TRUE, cn[1], cn[2], r) :
                      r \in [1..n -> ForeignRows(cn[1], cn[2])]} :
                  n \in 0..MaxPlays} :
           cn \in ({Columns} \X BOOLEAN)
                     \cup {<<Columns \ {c}, TRUE>> : c \in Columns}}

\* ---- calculateBlownGames.py ----

RequiredColumns == {"wp", "posteam", "winner"}

\* "lower_wp_threshold <= win_probability <= upper_wp_threshold"
WithinThresholds(wp, lo, hi) == lo <= wp /\ wp <= hi

\* teams_within_threshold after the iterrows loop.
TeamsWithinThreshold(rows, lo, hi) ==
    {rows[k].posteam : k \in {j \in 1..Len(rows) :
                                 WithinThresholds(rows[j].wp, lo, hi)}}

\* teams_that_won after the iterrows loop.
TeamsThatWon(rows, lo, hi) ==
    {rows[k].posteam : k \in {j \in 1..Len(rows) :
                                 /\ WithinThresholds(rows[j].wp, lo, hi)
                                 /\ rows[j].winner = 1}}

\* One count per qualifying row instead of one per game.
BetweenIncrement_PerRow(team, rows, lo, hi) ==
    Cardinality({k \in 1..Len(rows) :
                    rows[k].posteam = team
                    /\ WithinThresholds(rows[k].wp, lo, hi)})

\* "for team in teams_within_threshold: games_between_thresholds[team] += 1"
BetweenIncrement(team, rows, lo, hi) ==
    IF team \in TeamsWithinThreshold(rows, lo, hi) THEN 1 ELSE 0

\* "if team in teams_that_won: games_won[team] += 1"
WonIncrement(team, rows, lo, hi) ==
    IF /\ team \in TeamsWithinThreshold(rows, lo, hi)
       /\ team \in TeamsThatWon(rows, lo, hi)
    THEN 1 ELSE 0

\* The try block around the whole listdir loop: the first exception ends
\* the loop.
OnException_EndsLoop(gbt, gw) ==
    [gbt |-> gbt, gw |-> gw, report |-> "error", stage |-> "aborted"]

\* "except Exception as e: print(...)" inside the loop: the two sets are
\* dropped, the counts are as they were, the loop goes on.
OnException(gbt, gw) ==
    [gbt |-> gbt, gw |-> gw, report |-> "error", stage |-> "next"]

\* "print(f'Skipping ...'); continue"
OnMissingColumns(file, lo, hi, gbt, gw) ==
    [gbt |-> gbt, gw |-> gw, report |-> "skipping", stage |-> "next"]

\* Body of the listdir loop for one file: the counts after it, what was
\* printed ("none", "skipping": missing columns, "error": exception) and
\* whether the loop goes on.  pd.read_csv raises on an unreadable file; the
\* comparison with the thresholds raises TypeError on the first row of a
\* file whose wp column is text.
ProcessFile(file, lo, hi, gbt, gw) ==
    IF ~file.csv
    THEN [gbt |-> gbt, gw |-> gw, report |-> "none", stage |-> "next"]
    ELSE IF ~file.readable
    THEN OnException(gbt, gw)
    ELSE IF ~(RequiredColumns \subseteq file.cols)
    THEN OnMissingColumns(file, lo, hi, gbt, gw)
    ELSE IF ~file.wp_numeric /\ Len(file.rows) > 0
    THEN OnException(gbt, gw)
    ELSE [gbt |-> [t \in Teams |->
                      gbt[t] + BetweenIncrement(t, file.rows, lo, hi)],
          gw |-> [t \in Teams |->
                      gw[t] + WonIncrement(t, file.rows, lo, hi)],
          report |-> "none", stage |-> "next"]

NoFile == [csv |-> FALSE, readable |-> TRUE, cols |-> Columns,
           wp_numeric |-> TRUE, origin |-> "none", rows |-> <<>>]

ZeroCounts == [t \in Teams |-> 0]

BgNoEvent == [report |-> "none", counted |-> {}, after |-> "none"]

BgInit ==
    /\ bg_stage = "idle"
    /\ bg_nfiles = 0
    /\ bg_file = NoFile
    /\ bg_lower = 0
    /\ bg_upper = 0
    /\ games_between_thresholds = ZeroCounts
    /\ games_won = ZeroCounts
    /\ bg_event = BgNoEvent

\* calculateBlownGames.py up to the listdir loop: the two thresholds are
\* read from the command line (0.0 <= lower < upper <= 1.0 is required) and
\* the two dictionaries start empty.
BgStart ==
    /\ bg_stage = "idle"
    /\ \E p \in ThresholdPairs :
         /\ 0 <= p[1] /\ p[1] < p[2] /\ p[2] <= 100
         /\ bg_lower' = p[1]
         /\ bg_upper' = p[2]
    /\ bg_stage' = "next"
    /\ UNCHANGED <<bg_nfiles, bg_file, games_between_thresholds, games_won,
                   bg_event>>
    /\ UNCHANGED bgOthers

\* create_csv_files, one iteration of the groupby loop: the file of one game
\* is written to the directory.
BgCreateCsv ==
    /\ bg_stage = "next"
    /\ bg_nfiles < MaxFiles
    /\ \E g \in RawGames : bg_file' = CreateCsvFile(g)
    /\ bg_stage' = "listed"
    /\ bg_nfiles' = bg_nfiles + 1
    /\ UNCHANGED <<bg_lower, bg_upper, games_between_thresholds, games_won,
                   bg_event>>
    /\ UNCHANGED bgOthers

\* The directory holds a file that create_csv_files did not write.
BgForeignFile ==
    /\ bg_stage = "next"
    /\ bg_nfiles < MaxFiles
    /\ \E f \in ForeignFiles : bg_file' = f
    /\ bg_stage' = "listed"
    /\ bg_nfiles' = bg_nfiles + 1
    /\ UNCHANGED <<bg_lower, bg_upper, games_between_thresholds, games_won,
                   bg_event>>
    /\ UNCHANGED bgOthers

\* calculate_blown_games, one iteration of the listdir loop.  bg_event keeps
\* what the iteration printed, which teams it counted, and what the
\* iteration before it printed.
BgProcessFile ==
    /\ bg_stage = "listed"
    /\ LET r == ProcessFile(bg_file, bg_lower, bg_upper,
                            games_between_thresholds, games_won)
       IN /\ games_between_thresholds' = r.gbt
          /\ games_won' = r.gw
          /\ bg_stage' = r.stage
          /\ bg_event' =
                [report |-> r.report,
                 counted |-> {t \in Teams :
                                r.gbt[t] # games_between_thresholds[t]},
                 after |-> bg_event.report]
    /\ bg_file' = NoFile
    /\ UNCHANGED <<bg_nfiles, bg_lower, bg_upper>>
    /\ UNCHANGED bgOthers

BgNext == BgStart \/ BgCreateCsv \/ BgForeignFile \/ BgProcessFile

(***************************************************************************)
(*        496_Project/Code/1_Rookie Contracts/year_to_year_download.py     *)
(***************************************************************************)

\* Bounds of the model.
MaxYears == 3           \* years the user can name, counted from the first
MaxRowsPerYear == 1     \* most rookie-extension rows of one year's page

\* fetch_extension_data(year, delay=2)
Delay == 2

Years == 1..MaxYears

\* What one rookie row of a year page can be: without a player link (nothing
\* is inserted in front of the row), or with one, the player page then
\* giving a draft year, giving none, or its request raising.
RowKinds == {"nolink", "draft", "notfound", "exception"}

\* scrape_draft_year_from_spotrac: the draft year, or None when the page has
\* none or the request raised (RequestException is caught there).
ScrapeDraftYear(kind) == IF kind = "draft" THEN "drafted" ELSE "None"

\* The list appended to contract_data for the k-th rookie row of the page:
\* the cells of the row, with "data.insert(0, draft_year if draft_year else
\* 'N/A')" when the row has a player link.
ContractRow(year, k, kind) ==
    [year |-> year, rank |-> k,
     yr1 |-> IF kind = "nolink" THEN "absent"
             ELSE IF ScrapeDraftYear(kind) = "None" THEN "N/A"
             ELSE ScrapeDraftYear(kind)]

\* The except clause left out: the exception leaves fetch_extension_data
\* and main.
OnRequestException_Uncaught == [data |-> <<>>, pc |-> "crashed"]

\* "except requests.exceptions.RequestException as e: print(...)", then
\* "return contract_data", which is still empty.
OnRequestException == [data |-> <<>>, pc |-> "loop"]

\* "if year_data: all_data.extend(year_data)"
ExtendAllData(data, year_data) ==
    IF year_data # <<>> THEN data \o year_data ELSE data

\* create_csv: the header, then one line per row of data.
CreateCsv(data) == [exists |-> TRUE, rows |-> data]

YyReq(kind, prev, gap) == [kind |-> kind, prev |-> prev, gap |-> gap]

Unfetched == [status |-> "unfetched", rows |-> <<>>]

YyInit ==
    /\ yy_pc = "idle"
    /\ start_year = 1
    /\ end_year = 1
    /\ yy_year = 1
    /\ all_data = <<>>
    /\ rooks_csv = [exists |-> FALSE, rows |-> <<>>]
    /\ yy_pages = [y \in Years |-> Unfetched]
    /\ yy_slept = 0
    /\ yy_lastKind = "none"
    /\ yy_event = <<>>

\* main up to the loop: the two years are read; a start year after the end
\* year (or an input that is no integer) ends main without a CSV.
YyStart ==
    /\ yy_pc = "idle"
    /\ \E s \in Years, e \in Years :
         /\ start_year' = s
         /\ end_year' = e
         /\ yy_year' = s
         /\ yy_pc' = IF s > e THEN "rejected" ELSE "loop"
    /\ UNCHANGED <<all_data, rooks_csv, yy_pages, yy_slept, yy_lastKind,
                   yy_event>>
    /\ UNCHANGED yyOthers

\* One iteration of the for loop of main: fetch_extension_data(year) (the
\* year page request, one player page request per rookie row that has a
\* link, time.sleep(delay) at the end of the try block) and the extend.
YyFetchYear ==
    /\ yy_pc = "loop"
    /\ yy_year <= end_year
    /\ \E ok \in BOOLEAN, n \in 0..MaxRowsPerYear :
       \E kinds \in [1..n -> RowKinds] :
         LET yearReq == YyReq("year", yy_lastKind, yy_slept)
             links == {k \in 1..n : kinds[k] # "nolink"}
             playerReqs ==
                 [j \in 1..Cardinality(links) |->
                     YyReq("player", IF j = 1 THEN "year" ELSE "player", 0)]
             contract_data == [k \in 1..n |-> ContractRow(yy_year, k, kinds[k])]
         IN
         /\ ~ok => n = 0
         /\ IF ok
            THEN /\ yy_pages' = [yy_pages EXCEPT
                                    ![yy_year] = [status |-> "ok",
                                                  rows |-> contract_data]]
                 /\ all_data' = ExtendAllData(all_data, contract_data)
                 /\ yy_event' = <<yearReq>> \o playerReqs
                 /\ yy_lastKind' = IF links = {} THEN "year" ELSE "player"
                 /\ yy_slept' = Delay
                 /\ yy_pc' = "loop"
                 /\ yy_year' = yy_year + 1
            ELSE /\ yy_pages' = [yy_pages EXCEPT
                                    ![yy_year] = [status |-> "failed",
                                                  rows |-> <<>>]]
                 /\ all_data' =
                       ExtendAllData(all_data, OnRequestException.data)
                 /\ yy_event' = <<yearReq>>
                 /\ yy_lastKind' = "year"
                 /\ yy_slept' = 0
                 /\ yy_pc' = OnRequestException.pc
                 /\ yy_year' = IF OnRequestException.pc = "loop"
                               THEN yy_year + 1 ELSE yy_year
    /\ UNCHANGED <<start_year, end_year, rooks_csv>>
    /\ UNCHANGED yyOthers

\* After the loop: create_csv(all_data, start_year, end_year).
YyCreateCsv ==
    /\ yy_pc = "loop"
    /\ yy_year > end_year
    /\ rooks_csv' = CreateCsv(all_data)
    /\ yy_pc' = "done"
    /\ yy_event' = <<>>
    /\ UNCHANGED <<start_year, end_year, yy_year, all_data, yy_pages,
                   yy_slept, yy_lastKind>>
    /\ UNCHANGED yyOthers

YyNext == YyStart \/ YyFetchYear \/ YyCreateCsv

(***************************************************************************)
(*            hw2-createModel.py and hw2-createModel-Improved.py           *)
(*                                                                         *)
(* Every field of a play-by-play row is text, as csv.DictReader gives it:  *)
(* Inning is a half-inning letter followed by the digits of the inning     *)
(* number, Outs is a digit, Score is "away-home" kept as the two parts     *)
(* that split('-') gives, Runners is a string of base characters.          *)
(***************************************************************************)

\* Most rows handed to the split functions.
MaxSplitRows == 2

\* Most play-by-play rows read by one run of create_model_data.
MaxRows == 4

\* Innings of a regulation game.
RegulationInnings == 9

\* Winner of a model row whose score is tied (None in the code).
NoneWinner == -1

DigitChars == <<"0", "1", "2", "3", "4", "5", "6", "7", "8", "9">>

RECURSIVE DigitsOf(_)
\* str(n) for n >= 0.
DigitsOf(n) ==
    IF n < 10 THEN <<DigitChars[n + 1]>>
    ELSE DigitsOf(n \div 10) \o <<DigitChars[(n % 10) + 1]>>

DigitValue(c) == CHOOSE d \in 0..9 : DigitChars[d + 1] = c

RECURSIVE IntOf(_)
\* int(text) for a non-empty string of digits.
IntOf(text) ==
    IF Len(text) = 1 THEN DigitValue(text[1])
    ELSE IntOf(SubSeq(text, 1, Len(text) - 1)) * 10
           + DigitValue(text[Len(text)])

InningText(half, number) == <<half>> \o DigitsOf(number)

\* Score and Runners cells of a play.
Situations == {
    [Score |-> <<"0", "0">>, Runners |-> <<"-", "-", "-">>],
    [Score |-> <<"1", "0">>, Runners |-> <<"1", "-", "3">>],
    [Score |-> <<"0", "1">>, Runners |-> <<"-", "2", "-">>] }

\* The away team bats in the top half of an inning, the home team in the
\* bottom half.
BattingTeam(half) == IF half = "t" THEN "Away Team" ELSE "Home Team"

PlayRow(half, number, outs, situation) ==
    [Inning |-> InningText(half, number), Outs |-> DigitsOf(outs),
     Score |-> situation.Score, Runners |-> situation.Runners,
     Team |-> BattingTeam(half)]

determine_winner(row, team) ==
    IF row.Team = team THEN "Away" ELSE "Home"

calculate_total_outs(inning, outs) ==
    LET inning_number == IntOf(Tail(inning))
        top_of_inning == Head(inning) = "t"
    IN  inning_number * 3 + IntOf(outs) - (IF top_of_inning THEN 3 ELSE 0)

process_runners(runners) ==
    <<IF "1" \in Range(runners) THEN 1 ELSE 0,
      IF "2" \in Range(runners) THEN 1 ELSE 0,
      IF "3" \in Range(runners) THEN 1 ELSE 0>>

RunDiff(row) == IntOf(<<row.Score[2]>>) - IntOf(<<row.Score[1]>>)

\* The model row of a play.  The field play is not in the code's row: it
\* remembers the half-inning and outs of the play the row was made from.
ModelRow(row) ==
    LET run_diff == RunDiff(row)
        likely_winner == IF run_diff > 0 THEN 1
                         ELSE IF run_diff < 0 THEN 0 ELSE NoneWinner
    IN  [TotalOuts |-> calculate_total_outs(row.Inning, row.Outs),
         RunDiff |-> run_diff,
         Base1 |-> process_runners(row.Runners)[1],
         Base2 |-> process_runners(row.Runners)[2],
         Base3 |-> process_runners(row.Runners)[3],
         Winner |-> likely_winner,
         play |-> [Inning |-> row.Inning, Outs |-> row.Outs]]

\* The last-play row of a game, made from its final play.
LastPlay(row, winner) ==
    [TotalOuts |-> calculate_total_outs(row.Inning, row.Outs),
     RunDiff |-> RunDiff(row),
     Base1 |-> process_runners(row.Runners)[1],
     Base2 |-> process_runners(row.Runners)[2],
     Base3 |-> process_runners(row.Runners)[3],
     Winner |-> IF winner = "Home" THEN 1 ELSE 0,
     play |-> [Inning |-> row.Inning, Outs |-> row.Outs]]

IsEarly(row) == row.TotalOuts <= 21
IsLate(row) == row.TotalOuts > 21

\* hw2-createModel.py
split_data_by_inning(data) ==
    [early |-> SelectSeq(data, IsEarly), late |-> SelectSeq(data, IsLate)]

\* hw2-createModel-Improved.py
split_inning_data(data) ==
    [early |-> SelectSeq(data, IsEarly), late |-> SelectSeq(data, IsLate)]

\* train_logistic_regression raises unless the rows with a winner hold both
\* classes.
TrainRaises(data) ==
    ~({0, 1} \subseteq {data[k].Winner : k \in 1..Len(data)})

\* ---- the split functions applied to model rows of any plays ----

NoSplit == [early |-> <<>>, late |-> <<>>]

SpInit ==
    /\ sp_stage = "rows"
    /\ sp_model_data = <<>>
    /\ sp_split = NoSplit
    /\ sp_split_improved = NoSplit

\* The loop body of process_play_by_play adds the model row of a play.
SpAddRow ==
    /\ sp_stage = "rows"
    /\ Len(sp_model_data) < MaxSplitRows
    /\ \E half \in {"t", "b"}, number \in 1..RegulationInnings,
          outs \in 0..2 :
         sp_model_data' =
             Append(sp_model_data,
                    ModelRow(PlayRow(half, number, outs,
                                     CHOOSE sit \in Situations :
                                         sit.Score = <<"0", "0">>)))
    /\ UNCHANGED <<sp_stage, sp_split, sp_split_improved>>
    /\ UNCHANGED spOthers

SpSplit ==
    /\ sp_stage = "rows"
    /\ sp_split' = split_data_by_inning(sp_model_data)
    /\ sp_split_improved' = split_inning_data(sp_model_data)
    /\ sp_stage' = "split"
    /\ UNCHANGED sp_model_data
    /\ UNCHANGED spOthers

SpNext == SpAddRow \/ SpSplit

\* ---- create_model_data ----

NoRow == [isNone |-> TRUE,
          row |-> PlayRow("t", 1, 0, CHOOSE sit \in Situations :
                                         sit.Score = <<"0", "0">>)]

NotPrinted == [printed |-> FALSE, count |-> 0]

\* Half-innings of the later plays of the input.
InputHalfInnings == {<<"t", 1>>, <<"b", 1>>, <<"b", RegulationInnings>>}

\* A game is over once a play of its last inning has been read.
GameComplete(row) == IntOf(Tail(row.Inning)) >= RegulationInnings

CmInit ==
    /\ cm_pc = "idle"
    /\ cm_games = 0
    /\ cm_read = 0
    /\ previous_row = NoRow
    /\ first_team = "None"
    /\ model_data = <<>>
    /\ end_of_game_count = 0
    /\ cm_printed = NotPrinted

\* create_model_data reads the input file and enters process_play_by_play.
CmStart ==
    /\ cm_pc = "idle"
    /\ cm_pc' = "loop"
    /\ UNCHANGED <<cm_games, cm_read, previous_row, first_team, model_data,
                   end_of_game_count, cm_printed>>
    /\ UNCHANGED cmOthers

\* One iteration of the for loop of process_play_by_play over row.
ProcessRow(row) ==
    LET new_game == row.Inning = <<"t", "1">>
                    /\ ~previous_row.isNone
                    /\ previous_row.row.Inning # <<"t", "1">>
        winner == determine_winner(previous_row.row, first_team)
    IN  /\ end_of_game_count' =
              IF new_game THEN end_of_game_count + 1 ELSE end_of_game_count
        /\ first_team' = IF new_game THEN row.Team ELSE first_team
        /\ model_data' =
              (IF new_game
               THEN Append(model_data, LastPlay(previous_row.row, winner))
               ELSE model_data) \o <<ModelRow(row)>>
        /\ previous_row' = [isNone |-> FALSE, row |-> row]

\* The next row of the file is the first play of a game.
CmFirstPlay ==
    /\ cm_pc = "loop"
    /\ cm_read < MaxRows
    /\ previous_row.isNone \/ GameComplete(previous_row.row)
    /\ \E sit \in Situations : ProcessRow(PlayRow("t", 1, 0, sit))
    /\ cm_games' = cm_games + 1
    /\ cm_read' = cm_read + 1
    /\ UNCHANGED <<cm_pc, cm_printed>>
    /\ UNCHANGED cmOthers

\* The next row of the file is a later play of the game being read.
CmLaterPlay ==
    /\ cm_pc = "loop"
    /\ cm_read < MaxRows
    /\ ~previous_row.isNone
    /\ \E hi \in InputHalfInnings, outs \in {0, 2}, sit \in Situations :
         LET row == PlayRow(hi[1], hi[2], outs, sit)
             earlier == previous_row.row
         IN  /\ calculate_total_outs(row.Inning, row.Outs)
                  >= calculate_total_outs(earlier.Inning, earlier.Outs)
             /\ ProcessRow(row)
    /\ cm_read' = cm_read + 1
    /\ UNCHANGED <<cm_pc, cm_games, cm_printed>>
    /\ UNCHANGED cmOthers

\* End of the file: the last play of the final game is added, the data is
\* split, the three models are trained and the total is printed.
CmFinish ==
    /\ cm_pc = "loop"
    /\ previous_row.isNone \/ GameComplete(previous_row.row)
    /\ LET final ==
               IF previous_row.isNone THEN model_data
               ELSE Append(model_data,
                           LastPlay(previous_row.row,
                                    determine_winner(previous_row.row,
                                                     first_team)))
           parts == split_data_by_inning(final)
           raised == \/ TrainRaises(final)
                     \/ TrainRaises(parts.early)
                     \/ TrainRaises(parts.late)
       IN  /\ model_data' = final
           /\ cm_pc' = IF raised THEN "failed" ELSE "done"
           /\ cm_printed' = IF raised THEN NotPrinted
                            ELSE [printed |-> TRUE,
                                  count |-> end_of_game_count]
    /\ UNCHANGED <<cm_games, cm_read, previous_row, first_team,
                   end_of_game_count>>
    /\ UNCHANGED cmOthers

CmNext == CmStart \/ CmFirstPlay \/ CmLaterPlay \/ CmFinish

(***************************************************************************)
(*                              nomentum.py                                *)
(***************************************************************************)

\* Most rows of the DataFrame handed to filter_drives.
MaxDriveRows == 2

\* Rows of the play-by-play data, with the columns filter_drives reads.
DriveRows ==
    [play_id : {1, 2}, drive_play_id_started : {1},
     half_seconds_remaining : {60, 900}, yardline_100 : {20, 75},
     score_differential : {-3, 7},
     drive_start_transition : {"PUNT", "FUMBLE"}]

\* Command-line parameters handed to filter_drives.
FilterArgs ==
    [min_time : {120}, yard_line : {50}, max_score_diff : {3},
     possession_change_type : {"PUNT"}]

NoArgs == [min_time |-> 0, yard_line |-> 0, max_score_diff |-> 0,
           possession_change_type |-> ""]

filter_drives(data, min_time, yard_line, max_score_diff, change_type) ==
    LET keep(row) ==
            /\ row.play_id = row.drive_play_id_started
            /\ row.half_seconds_remaining >= min_time
            /\ row.yardline_100 >= yard_line
            /\ row.score_differential <= max_score_diff
            /\ row.drive_start_transition = change_type
    IN  SelectSeq(data, keep)

NmInit ==
    /\ nm_stage = "rows"
    /\ nm_data = <<>>
    /\ nm_args = NoArgs
    /\ nm_filtered = <<>>

\* load_play_by_play_files: one more row in the concatenated data.
NmLoadRow ==
    /\ nm_stage = "rows"
    /\ Len(nm_data) < MaxDriveRows
    /\ \E row \in DriveRows : nm_data' = Append(nm_data, row)
    /\ UNCHANGED <<nm_stage, nm_args, nm_filtered>>
    /\ UNCHANGED nmOthers

\* main calls filter_drives on the loaded data.
NmFilter ==
    /\ nm_stage = "rows"
    /\ \E args \in FilterArgs :
         /\ nm_args' = args
         /\ nm_filtered' =
              filter_drives(nm_data, args.min_time, args.yard_line,
                            args.max_score_diff, args.possession_change_type)
    /\ nm_stage' = "filtered"
    /\ UNCHANGED nm_data
    /\ UNCHANGED nmOthers

NmNext == NmLoadRow \/ NmFilter

(***************************************************************************)
(*                       sacrifice_bunt_analysis.py                        *)
(*                                                                         *)
(* A description is a list of words; str.contains is matched on whole      *)
(* words, after lowering both sides when case=False.  A probability is     *)
(* kept as its numerator and denominator.                                  *)
(***************************************************************************)

\* Most rows of the play-by-play DataFrame.
MaxBuntRows == 2

Descriptions == {
    <<"Single", "to", "LF">>,
    <<"Bunt", "Groundout", "Sacrifice">>,
    <<"Foul", "Bunt">>,
    <<"bunt", "popfly">> }

BuntRows == [outs : {0, 1, 2}, runners : {"---", "1--"},
             description : Descriptions]

\* str.lower() of a word.
Lower(word) ==
    CASE word = "Single" -> "single"
      [] word = "LF" -> "lf"
      [] word = "Bunt" -> "bunt"
      [] word = "Groundout" -> "groundout"
      [] word = "Sacrifice" -> "sacrifice"
      [] word = "Foul" -> "foul"
      [] OTHER -> word

LowerAll(description) ==
    [k \in 1..Len(description) |-> Lower(description[k])]

\* The phrase occurs in the text.
Occurs(text, phrase) ==
    \E k \in 1..(Len(text) - Len(phrase) + 1) :
        SubSeq(text, k, k + Len(phrase) - 1) = phrase

\* description.str.contains(phrase, case=False)
Contains(description, phrase) ==
    Occurs(LowerAll(description), LowerAll(phrase))

\* 'phrase' in description.lower()
InLowered(description, phrase) == Occurs(LowerAll(description), phrase)

ContainsAny(description, phrases) ==
    \E phrase \in phrases : Contains(description, phrase)

\* str.contains('groundout.*sacrifice', case=False)
ContainsGroundoutThenSacrifice(description) ==
    LET text == LowerAll(description)
    IN  \E i, j \in 1..Len(text) :
            i < j /\ text[i] = "groundout" /\ text[j] = "sacrifice"

\* The query of categorize_and_log_bunt_situations.
IsBuntSituation(row) ==
    /\ row.outs < 2
    /\ row.runners # "---"
    /\ Contains(row.description, <<"Bunt">>)

\* The query of calculate_bunt_probabilities_with_assumptions.
IsCountedPlay(row) ==
    /\ row.outs < 2
    /\ row.runners # "---"

IsUncategorized(row) ==
    LET d == row.description
    IN  ~ \/ InLowered(d, <<"missed">>) \/ InLowered(d, <<"foul">>)
          \/ InLowered(d, <<"strikeout">>)
          \/ InLowered(d, <<"forceout">>)
          \/ InLowered(d, <<"fielder's", "choice">>)
          \/ InLowered(d, <<"double", "play">>)
          \/ (InLowered(d, <<"groundout">>) /\ InLowered(d, <<"sacrifice">>))
          \/ InLowered(d, <<"advances">>)
          \/ InLowered(d, <<"single">>) \/ InLowered(d, <<"bunt", "hit">>)
          \/ InLowered(d, <<"safe">>)

categorize_and_log_bunt_situations(data) ==
    LET bunt_data == SelectSeq(data, IsBuntSituation)
    IN  IF bunt_data = <<>>
        THEN [bunt_data |-> <<>>, total_bunts |-> 0,
              total_uncategorized |-> 0]
        ELSE [bunt_data |-> bunt_data, total_bunts |-> Len(bunt_data),
              total_uncategorized |-> Len(SelectSeq(bunt_data, IsUncategorized))]

IsMissed(row) ==
    ContainsAny(row.description, {<<"missed">>, <<"foul">>, <<"strikeout">>})

IsInPlay(row) == ~IsMissed(row)

IsUnsuccessful(row) ==
    ContainsAny(row.description,
                {<<"forceout">>, <<"fielder's", "choice">>,
                 <<"double", "play">>})

IsSuccessful(row) ==
    \/ ContainsGroundoutThenSacrifice(row.description)
    \/ Contains(row.description, <<"advances">>)

IsBuntHit(row) ==
    ContainsAny(row.description, {<<"single">>, <<"bunt", "hit">>, <<"safe">>})

Ratio(n, d) == IF d # 0 THEN [num |-> n, den |-> d] ELSE [num |-> 0, den |-> 1]

NoProbabilities ==
    [X |-> Ratio(0, 0), Y |-> Ratio(0, 0), Z |-> Ratio(0, 0),
     W |-> Ratio(0, 0), bunt_data |-> <<>>]

calculate_bunt_probabilities_with_assumptions(data) ==
    LET bunt_data == SelectSeq(data, IsCountedPlay)
        bunt_in_play_data == SelectSeq(bunt_data, IsInPlay)
        total_bunts == Len(bunt_data)
        total_in_play_bunts == Len(bunt_in_play_data)
    IN  IF bunt_data = <<>> THEN NoProbabilities
        ELSE [X |-> Ratio(Len(SelectSeq(bunt_data, IsMissed)), total_bunts),
              Y |-> Ratio(Len(SelectSeq(bunt_in_play_data, IsUnsuccessful)),
                          total_in_play_bunts),
              Z |-> Ratio(Len(SelectSeq(bunt_in_play_data, IsSuccessful)),
                          total_in_play_bunts),
              W |-> Ratio(Len(SelectSeq(bunt_in_play_data, IsBuntHit)),
                          total_in_play_bunts),
              bunt_data |-> bunt_data]

NoSituations == [bunt_data |-> <<>>, total_bunts |-> 0,
                 total_uncategorized |-> 0]

BtInit ==
    /\ bt_stage = "rows"
    /\ play_by_play_data = <<>>
    /\ bt_situations = NoSituations
    /\ bt_probabilities = NoProbabilities

\* load_all_play_by_play_data: one more row in the concatenated data.
BtLoadRow ==
    /\ bt_stage = "rows"
    /\ Len(play_by_play_data) < MaxBuntRows
    /\ \E row \in BuntRows :
         play_by_play_data' = Append(play_by_play_data, row)
    /\ UNCHANGED <<bt_stage, bt_situations, bt_probabilities>>
    /\ UNCHANGED btOthers

\* The main block runs only on data that is not empty.
BtCategorize ==
    /\ bt_stage = "rows"
    /\ play_by_play_data # <<>>
    /\ bt_situations' = categorize_and_log_bunt_situations(play_by_play_data)
    /\ bt_stage' = "categorized"
    /\ UNCHANGED <<play_by_play_data, bt_probabilities>>
    /\ UNCHANGED btOthers

BtCalculate ==
    /\ bt_stage = "categorized"
    /\ bt_probabilities' =
          calculate_bunt_probabilities_with_assumptions(play_by_play_data)
    /\ bt_stage' = "calculated"
    /\ UNCHANGED <<play_by_play_data, bt_situations>>
    /\ UNCHANGED btOthers

BtNext == BtLoadRow \/ BtCategorize \/ BtCalculate

(***************************************************************************)
(*                           pullResultLogit.py                            *)
(*                                                                         *)
(* An OPS value is kept as a fraction: OBP and SLG have the same           *)
(* denominator, the number of plate appearances.                           *)
(***************************************************************************)

\* Most CSV files in the directory.
MaxCsvFiles == 2

\* Most rows of a CSV file.
MaxOpsRows == 1

BattedBalls == [events : {"single", "home_run", "field_out"},
                stand : {"L", "R"}]

get_total_bases(event) ==
    CASE event = "single" -> 1
      [] event = "double" -> 2
      [] event = "triple" -> 3
      [] event = "home_run" -> 4
      [] OTHER -> 0

\* The lambda of the hits column.
Hits(event) ==
    IF event \in {"single", "double", "triple", "home_run"} THEN 1 ELSE 0

\* The hits and total_bases columns that process_data adds.
process_data(data) ==
    [k \in 1..Len(data) |->
        [events |-> data[k].events, stand |-> data[k].stand,
         hits |-> Hits(data[k].events),
         total_bases |-> get_total_bases(data[k].events)]]

RECURSIVE SumHits(_)
\* data['hits'].sum()
SumHits(data) ==
    IF data = <<>> THEN 0 ELSE Head(data).hits + SumHits(Tail(data))

RECURSIVE SumTotalBases(_)
\* data['total_bases'].sum()
SumTotalBases(data) ==
    IF data = <<>> THEN 0
    ELSE Head(data).total_bases + SumTotalBases(Tail(data))

\* calculate_obp(data) + calculate_slg(data)
calculate_ops(data) ==
    IF Len(data) > 0
    THEN [num |-> SumHits(data) + SumTotalBases(data), den |-> Len(data)]
    ELSE [num |-> 0, den |-> 1]

IsLeftHanded(row) == row.stand = "L"
IsRightHanded(row) == row.stand = "R"

\* The three values compute_and_print_ops prints for a file.
compute_and_print_ops(data, filename) ==
    LET parsed == process_data(data)
    IN  [file |-> filename,
         all |-> calculate_ops(parsed),
         lefties |-> calculate_ops(SelectSeq(parsed, IsLeftHanded)),
         righties |-> calculate_ops(SelectSeq(parsed, IsRightHanded))]

OpInit ==
    /\ op_stage = "setup"
    /\ op_dir = <<>>
    /\ op_arg = "none"
    /\ op_printed = <<>>

\* Before the run: one more CSV file in the directory.
OpAddFile ==
    /\ op_stage = "setup"
    /\ Len(op_dir) < MaxCsvFiles
    /\ op_dir' = Append(op_dir, <<>>)
    /\ UNCHANGED <<op_stage, op_arg, op_printed>>
    /\ UNCHANGED opOthers

\* Before the run: one more row in the newest CSV file.
OpAddRow ==
    /\ op_stage = "setup"
    /\ op_dir # <<>>
    /\ Len(op_dir[Len(op_dir)]) < MaxOpsRows
    /\ \E row \in BattedBalls :
         op_dir' = [op_dir EXCEPT ![Len(op_dir)] = Append(@, row)]
    /\ UNCHANGED <<op_stage, op_arg, op_printed>>
    /\ UNCHANGED opOthers

\* main_single_file with the path of one of the files.
OpSingleFile ==
    /\ op_stage = "setup"
    /\ \E k \in 1..Len(op_dir) :
         op_printed' = <<compute_and_print_ops(op_dir[k], k)>>
    /\ op_arg' = "file"
    /\ op_stage' = "done"
    /\ UNCHANGED op_dir
    /\ UNCHANGED opOthers

\* main_single_file with the path of the directory: it calls
\* main_directory(path), and main_directory takes no parameter, so the call
\* raises TypeError before main_directory runs.
OpDirectory ==
    /\ op_stage = "setup"
    /\ op_arg' = "directory"
    /\ op_stage' = "crashed"
    /\ UNCHANGED <<op_dir, op_printed>>
    /\ UNCHANGED opOthers

OpNext == OpAddFile \/ OpAddRow \/ OpSingleFile \/ OpDirectory

(***************************************************************************)
(*                              runscoring.py                              *)
(*                                                                         *)
(* A line of the game log is kept as the four fields the script reads.     *)
(* The mean is kept as sum and number of games, the standard deviation as  *)
(* the numerator of its square over the squared number of games.           *)
(***************************************************************************)

\* Most lines of the game log.
MaxGameLines == 2

\* fields[3], fields[6], fields[9], fields[10] of a line.
GameLines ==
    {line \in
        {[visiting_team |-> v, home_team |-> h,
          visiting_team_runs |-> DigitsOf(vr),
          home_team_runs |-> DigitsOf(hr)] :
            v \in {"ARI", "ATL"}, h \in {"ARI", "ATL"},
            vr \in {1, 2, 3}, hr \in {1, 2, 3}} :
        line.visiting_team # line.home_team}

\* teams_data[team].append(runs) on a defaultdict(list).
AppendRuns(data, team, runs) ==
    IF \E k \in 1..Len(data) : data[k].team = team
    THEN [k \in 1..Len(data) |->
            IF data[k].team = team
            THEN [team |-> team, runs |-> Append(data[k].runs, runs)]
            ELSE data[k]]
    ELSE Append(data, [team |-> team, runs |-> <<runs>>])

RECURSIVE SumRuns(_)
SumRuns(runs) == IF runs = <<>> THEN 0 ELSE Head(runs) + SumRuns(Tail(runs))

RECURSIVE SumSquares(_)
SumSquares(runs) ==
    IF runs = <<>> THEN 0
    ELSE Head(runs) * Head(runs) + SumSquares(Tail(runs))

LessThan2(run) == run < 2
LessThan3(run) == run < 3

\* One tuple of teams_stats.
TeamStats(entry) ==
    LET runs == entry.runs
        n == Len(runs)
    IN  [team |-> entry.team,
         avg_runs |-> [sum |-> SumRuns(runs), n |-> n],
         std_dev_runs |-> n * SumSquares(runs) - SumRuns(runs) * SumRuns(runs),
         games_less_than_2 |-> Len(SelectSeq(runs, LessThan2)),
         games_less_than_3 |-> Len(SelectSeq(runs, LessThan3))]

\* a.avg_runs > b.avg_runs
HigherAverage(a, b) ==
    a.avg_runs.sum * b.avg_runs.n > b.avg_runs.sum * a.avg_runs.n

RECURSIVE InsertByAverage(_, _)
\* stats, already sorted, with x placed behind every tuple whose average is
\* not below its own.
InsertByAverage(stats, x) ==
    IF stats = <<>> THEN <<x>>
    ELSE IF HigherAverage(x, Head(stats)) THEN <<x>> \o stats
    ELSE <<Head(stats)>> \o InsertByAverage(Tail(stats), x)

RECURSIVE SortByAverage(_)
\* teams_stats.sort(key=lambda x: x[1], reverse=True): a stable sort.
SortByAverage(stats) ==
    IF stats = <<>> THEN <<>>
    ELSE InsertByAverage(SortByAverage(SubSeq(stats, 1, Len(stats) - 1)),
                         stats[Len(stats)])

\* The numbers of a printed line.
PrintedLine(stat) ==
    [team |-> stat.team, avg |-> stat.avg_runs, std_dev |-> stat.std_dev_runs,
     le2 |-> stat.games_less_than_2, le3 |-> stat.games_less_than_3]

RsInit ==
    /\ rs_pc = "reading"
    /\ rs_lines = <<>>
    /\ teams_data = <<>>
    /\ rs_printed = <<>>

\* One iteration of the loop over the lines of the file.
RsReadLine ==
    /\ rs_pc = "reading"
    /\ Len(rs_lines) < MaxGameLines
    /\ \E line \in GameLines :
         /\ rs_lines' = Append(rs_lines, line)
         /\ teams_data' =
              AppendRuns(AppendRuns(teams_data, line.visiting_team,
                                    IntOf(line.visiting_team_runs)),
                         line.home_team, IntOf(line.home_team_runs))
    /\ UNCHANGED <<rs_pc, rs_printed>>
    /\ UNCHANGED rsOthers

\* End of the file: the statistics are calculated, sorted and printed.
RsReport ==
    /\ rs_pc = "reading"
    /\ LET teams_stats == [k \in 1..Len(teams_data) |->
                              TeamStats(teams_data[k])]
           sorted == SortByAverage(teams_stats)
       IN  rs_printed' = [k \in 1..Len(sorted) |-> PrintedLine(sorted[k])]
    /\ rs_pc' = "printed"
    /\ UNCHANGED <<rs_lines, teams_data>>
    /\ UNCHANGED rsOthers

RsNext == RsReadLine \/ RsReport

(***************************************************************************)
(*      play_by_play.csv, from hw2-download.py to hw2-createModel.py       *)
(*                                                                         *)
(* A text is a list of characters.  write_to_csv writes the file with      *)
(* csv.DictWriter on a file opened with newline='', create_model_data      *)
(* reads it with csv.DictReader on a file opened in text mode with the     *)
(* default newline handling.  A column name is kept as one character.      *)
(***************************************************************************)

\* Most plays handed to write_to_csv.
MaxCsvRows == 2

Comma == ","
Quote == "\""
CR == "\r"
LF == "\n"

Headers == <<"Index", "Inning", "Score", "Outs", "Runners", "Pitch Code",
             "Runs Scored", "Team", "Batter", "Pitcher", "Change WP",
             "Current WP", "Description">>

\* Texts of the Description cell: cell text is stripped, so line breaks
\* occur inside it only.
CellTexts == {
    <<>>,
    <<"S", "i", "n", "g", "l", "e">>,
    <<"S", Comma, " ", "D">>,
    <<Quote, "S", Quote>>,
    <<"S", LF, "D">>,
    <<"S", CR, "D">>,
    <<"S", CR, LF, "D">> }

\* A play as extract_inning_info makes it.
Play(description) ==
    [h \in Range(Tail(Headers)) |->
        CASE h = "Inning" -> <<"t", "1">>
          [] h = "Score" -> <<"0", "-", "0">>
          [] h = "Outs" -> <<"0">>
          [] h = "Runners" -> <<"-", "-", "-">>
          [] h = "Pitch Code" -> <<"1", Comma, "(", "0", "-", "0", ")">>
          [] h = "Runs Scored" -> <<>>
          [] h = "Team" -> <<"A", "R", "I">>
          [] h = "Batter" -> <<"B">>
          [] h = "Pitcher" -> <<"P">>
          [] h = "Change WP" -> <<"2", "%">>
          [] h = "Current WP" -> <<"5", "2", "%">>
          [] OTHER -> description]

\* csv.writer, QUOTE_MINIMAL: a field is quoted when it holds the delimiter,
\* the quote character or a character of the line terminator.
NeedsQuoting(text) == Range(text) \cap {Comma, Quote, CR, LF} # {}

RECURSIVE DoubleQuotes(_)
DoubleQuotes(text) ==
    IF text = <<>> THEN <<>>
    ELSE (IF Head(text) = Quote THEN <<Quote, Quote>> ELSE <<Head(text)>>)
           \o DoubleQuotes(Tail(text))

WriteField(text) ==
    IF NeedsQuoting(text) THEN <<Quote>> \o DoubleQuotes(text) \o <<Quote>>
    ELSE text

RECURSIVE JoinFields(_)
JoinFields(fields) ==
    IF Len(fields) = 1 THEN WriteField(fields[1])
    ELSE WriteField(Head(fields)) \o <<Comma>> \o JoinFields(Tail(fields))

\* writer.writerow: the fields joined by commas, ended by "\r\n".
WriteRow(fields) == JoinFields(fields) \o <<CR, LF>>

\* The fields of row_with_index in the order of the headers.
RowWithIndex(idx, row) ==
    [k \in 1..Len(Headers) |->
        IF k = 1 THEN DigitsOf(idx) ELSE row[Headers[k]]]

RECURSIVE WriteRows(_, _)
WriteRows(data, idx) ==
    IF idx > Len(data) THEN <<>>
    ELSE WriteRow(RowWithIndex(idx, data[idx])) \o WriteRows(data, idx + 1)

\* The characters write_to_csv puts in the file.
CsvText(data) ==
    WriteRow([k \in 1..Len(Headers) |-> <<Headers[k]>>]) \o WriteRows(data, 1)

\* Reading in text mode without newline='': "\r\n" and "\r" become "\n".
UniversalNewlines(chars) ==
    LET FollowsCR(i) == i > 1 /\ chars[i] = LF /\ chars[i - 1] = CR
        Kept(i) == ~FollowsCR(i)
        kept == SelectSeq([i \in 1..Len(chars) |-> i], Kept)
    IN  [k \in 1..Len(kept) |->
            IF chars[kept[k]] = CR THEN LF ELSE chars[kept[k]]]

RECURSIVE ParseRecord(_, _, _, _)
\* csv.reader: the fields of the next record and the characters behind it.
\* state is where the parser is: at the start of the record, at the start
\* of a field, in an unquoted field, in a quoted field, or behind a quote
\* inside a quoted field.  An empty line gives a record without fields.
ParseRecord(chars, state, field, fields) ==
    IF chars = <<>>
    THEN [fields |-> IF state = "start_record" THEN <<>>
                     ELSE Append(fields, field),
          rest |-> <<>>]
    ELSE LET c == Head(chars)
             rest == Tail(chars)
         IN  IF state = "quoted"
             THEN IF c = Quote
                  THEN ParseRecord(rest, "quote_in_quoted", field, fields)
                  ELSE ParseRecord(rest, "quoted", Append(field, c), fields)
             ELSE IF c \in {LF, CR}
             THEN [fields |-> IF state = "start_record" THEN <<>>
                              ELSE Append(fields, field),
                   rest |-> rest]
             ELSE IF c = Comma
             THEN ParseRecord(rest, "start_field", <<>>,
                              Append(fields, field))
             ELSE IF c = Quote /\ state \in {"start_record", "start_field"}
             THEN ParseRecord(rest, "quoted", field, fields)
             ELSE IF c = Quote /\ state = "quote_in_quoted"
             THEN ParseRecord(rest, "quoted", Append(field, Quote), fields)
             ELSE ParseRecord(rest, "unquoted", Append(field, c), fields)

RECURSIVE ParseCsv(_)
\* The records of the file; csv.DictReader skips a record without fields.
ParseCsv(chars) ==
    IF chars = <<>> THEN <<>>
    ELSE LET next == ParseRecord(chars, "start_record", <<>>, <<>>)
         IN  (IF next.fields = <<>> THEN <<>> ELSE <<next.fields>>)
               \o ParseCsv(next.rest)

\* csv.DictReader: the first record gives the field names, every later
\* record a dict from the field names to its fields.
DictReaderRows(chars) ==
    LET records == ParseCsv(chars)
        fieldnames == Head(records)
        AsDict(record) ==
            [h \in {fieldnames[k][1] : k \in 1..Len(fieldnames)} |->
                LET k == CHOOSE j \in 1..Len(fieldnames) :
                             fieldnames[j][1] = h
                IN  IF k <= Len(record) THEN record[k] ELSE <<"None">>]
    IN  IF records = <<>> THEN <<>>
        ELSE [k \in 1..(Len(records) - 1) |-> AsDict(records[k + 1])]

HoInit ==
    /\ ho_stage = "rows"
    /\ ho_data = <<>>
    /\ ho_file = <<>>
    /\ ho_read = <<>>

\* scrape_all_games gathers one more play.
HoAddPlay ==
    /\ ho_stage = "rows"
    /\ Len(ho_data) < MaxCsvRows
    /\ \E description \in CellTexts :
         ho_data' = Append(ho_data, Play(description))
    /\ UNCHANGED <<ho_stage, ho_file, ho_read>>
    /\ UNCHANGED hoOthers

\* scrape_all_games writes the plays, if there are any.
HoWrite ==
    /\ ho_stage = "rows"
    /\ ho_data # <<>>
    /\ ho_file' = CsvText(ho_data)
    /\ ho_stage' = "written"
    /\ UNCHANGED <<ho_data, ho_read>>
    /\ UNCHANGED hoOthers

\* create_model_data reads the file.
HoRead ==
    /\ ho_stage = "written"
    /\ ho_read' = DictReaderRows(UniversalNewlines(ho_file))
    /\ ho_stage' = "read"
    /\ UNCHANGED <<ho_data, ho_file>>
    /\ UNCHANGED hoOthers

HoNext == HoAddPlay \/ HoWrite \/ HoRead

(***************************************************************************)
(*                            Specifications                               *)
(***************************************************************************)

InitAll == DlInit /\ CbbInit /\ BgInit /\ YyInit /\ SpInit /\ CmInit
           /\ NmInit /\ BtInit /\ OpInit /\ RsInit /\ HoInit

SpecDownload == InitAll /\ [][DlNext]_vars

SpecCbb == InitAll /\ [][CbbNext]_vars

SpecBlown == InitAll /\ [][BgNext]_vars

SpecYear == InitAll /\ [][YyNext]_vars

SpecSplit == InitAll /\ [][SpNext]_vars

SpecModel == InitAll /\ [][CmNext]_vars

SpecNomentum == InitAll /\ [][NmNext]_vars

SpecBunt == InitAll /\ [][BtNext]_vars

SpecOps == InitAll /\ [][OpNext]_vars

SpecRuns == InitAll /\ [][RsNext]_vars

SpecHandoff == InitAll /\ [][HoNext]_vars

(***************************************************************************)
(*                               Claims                                    *)
(***************************************************************************)

\* C1: a game URL that is a line of processed_games.txt when the loop reaches
\* it is skipped, no play-by-play request is issued for it, in every run
\* sharing the file.
C1_ProcessedUrlIsSkipped ==
    dl_event.inFile => dl_event.kind = "skip"

\* C1 witness: in a second run a URL recorded by the first run is skipped.
C1_Witness ==
    /\ dl_runs = 2
    /\ dl_event.kind = "skip"
    /\ dl_event.inFile

\* C6: when the request for one game's box-score page fails, the failure is
\* caught, the game is skipped and not marked processed, the remaining games
\* are still scraped and the collected play data is still written.
C6_RequestFailureIsSkipped ==
    /\ (dl_event.kind = "scrape" /\ dl_event.outcome = "exception")
          => /\ dl_pc = "loop"
             /\ dl_i > 1
    /\ (dl_pc \in {"done", "crashed"} /\ all_play_data # <<>>)
          => /\ play_by_play_csv.exists
             /\ play_by_play_csv.rows = WriteToCsv(all_play_data)

\* C9: within a run, after every box-score page request a 5-second sleep
\* completes before the next HTTP request, whether or not a table was found.
C9_SleepAfterBoxScore ==
    (dl_event.kind = "scrape" /\ dl_event.prevKind = "box")
        => dl_event.gap >= SleepSeconds

\* C9 witness: a box-score request issued after one that found no table.
C9_Witness ==
    /\ dl_event.kind = "scrape"
    /\ dl_event.prevKind = "box"
    /\ dl_i >= 2
    /\ all_play_data = <<>>
    /\ dl_pc = "loop"


\* C2: an input row whose player name is already recorded in
\* processed_players.csv is skipped: no HTTP request is made for the player
\* and no row is appended to player_stats.csv.
C2_ProcessedPlayerIsSkipped ==
    cbb_event.wasProcessed
        => (cbb_event.reqs = <<>> /\ ~cbb_event.appended)

\* C10: any two successive HTTP requests of a run are separated by a sleep of
\* 5 to 10 seconds: every request that is not the first of its run comes
\* after at least one such sleep.
C10_SleepBetweenRequests ==
    \A k \in 1..Len(cbb_event.reqs) :
        cbb_event.reqs[k].prev # "none"
            => cbb_event.reqs[k].gap >= SleepMin


\* The final score of a team in a game file: the score of the last row, on
\* the side the team is on in that row.
FinalScore(file, team) ==
    LET last == file.rows[Len(file.rows)]
    IN IF team = last.posteam THEN last.posteam_score ELSE last.defteam_score

TeamWon(file, team) == FinalScore(file, team) > FinalScore(file, Other(team))

\* Some row of the file has posteam = team and lower <= wp <= upper.
HasQualifyingRow(file, team, lo, hi) ==
    /\ file.readable
    /\ {"wp", "posteam"} \subseteq file.cols
    /\ file.wp_numeric
    /\ \E k \in 1..Len(file.rows) :
          /\ file.rows[k].posteam = team
          /\ lo <= file.rows[k].wp
          /\ file.rows[k].wp <= hi

\* The file lacks a required column, or processing it raises.
IsMalformed(file) ==
    \/ ~file.readable
    \/ \E c \in {"wp", "posteam", "winner"} : c \notin file.cols
    \/ ~file.wp_numeric /\ Len(file.rows) > 0

\* C3: in every per-game CSV written by create_csv_files, each row's winner
\* field is 1 if the team on offense in that row won the game by final score,
\* and 0 otherwise.
C3_WinnerIsOfRowOffense ==
    (bg_stage = "listed" /\ bg_file.origin = "createCSV")
        => \A k \in 1..Len(bg_file.rows) :
              bg_file.rows[k].winner =
                  IF TeamWon(bg_file, bg_file.rows[k].posteam) THEN 1 ELSE 0

\* C4: gamesWon is incremented for a team in a game only if the team had a
\* win probability within the thresholds during the game and ultimately won
\* it; so for the files of createCSV.py at most one of the two teams of a
\* game is counted in gamesWon.
C4_GamesWonOnlyForWinner ==
    [][(bg_stage = "listed" /\ bg_file.origin = "createCSV")
          => LET counted == {t \in Teams : games_won'[t] > games_won[t]}
             IN /\ Cardinality(counted) <= 1
                /\ \A t \in counted :
                      /\ HasQualifyingRow(bg_file, t, bg_lower, bg_upper)
                      /\ TeamWon(bg_file, t)]_vars

\* C5 as stated: gamesBetweenThresholds[team] grows by exactly one for each
\* game file in which a row has posteam = team and lower <= wp <= upper, and
\* by zero for any other game file.
C5_OnePerQualifyingFile ==
    [][(bg_stage = "listed" /\ bg_file.csv)
          => \A t \in Teams :
                games_between_thresholds'[t] - games_between_thresholds[t] =
                    IF HasQualifyingRow(bg_file, t, bg_lower, bg_upper)
                    THEN 1 ELSE 0]_vars

\* C5 amended: the same, for each game file that has the columns wp, posteam
\* and winner and is processed without an exception.
C5_OnePerQualifyingWellFormedFile ==
    [][(bg_stage = "listed" /\ bg_file.csv /\ ~IsMalformed(bg_file))
          => \A t \in Teams :
                games_between_thresholds'[t] - games_between_thresholds[t] =
                    IF HasQualifyingRow(bg_file, t, bg_lower, bg_upper)
                    THEN 1 ELSE 0]_vars

\* C5 witness: a file with all columns was counted for one team and not for
\* the other, after an earlier file was counted.
C5_Witness ==
    /\ bg_stage = "next"
    /\ bg_nfiles = 2
    /\ bg_event.report = "none"
    /\ Cardinality(bg_event.counted) = 1
    /\ \E t \in Teams : games_between_thresholds[t] = 2

\* C8: a CSV file that lacks one of the columns wp, posteam, winner, or whose
\* processing raises, is reported and leaves both counts of every team
\* unchanged; the remaining files are still processed.
C8_MalformedFileLeavesCounts ==
    [][(bg_stage = "listed" /\ bg_file.csv /\ IsMalformed(bg_file))
          => /\ games_between_thresholds' = games_between_thresholds
             /\ games_won' = games_won
             /\ bg_event'.report \in {"skipping", "error"}
             /\ bg_stage' = "next"]_vars

\* C8 witness: a file was counted right after a file that was reported, the
\* counts of an earlier file still standing.
C8_Witness ==
    /\ bg_stage = "next"
    /\ bg_event.after \in {"skipping", "error"}
    /\ bg_event.report = "none"
    /\ bg_event.counted # {}


\* The rows of the pages of the years from..to, in ascending year order.
RECURSIVE RowsOfYears(_, _, _)
RowsOfYears(pages, from, to) ==
    IF from > to THEN <<>>
    ELSE pages[from].rows \o RowsOfYears(pages, from + 1, to)

\* C7: when the page request for one year raises, fetch_extension_data
\* returns an empty list for that year; main continues with every remaining
\* year of the range and still writes the CSV, which holds the rows of all
\* other years in ascending year order.
C7_FailedYearIsSkipped ==
    /\ \A y \in Years :
          yy_pages[y].status = "failed"
              => (yy_pc \in {"loop", "done"} /\ yy_year > y)
    /\ yy_pc = "done"
          => /\ \A y \in start_year..end_year :
                   yy_pages[y].status \in {"ok", "failed"}
             /\ rooks_csv.exists
             /\ rooks_csv.rows = RowsOfYears(yy_pages, start_year, end_year)

\* C7 witness: the CSV was written with the rows of a year before and of a
\* year after a year whose request raised.
C7_Witness ==
    /\ yy_pc = "done"
    /\ \E y \in Years :
          /\ yy_pages[y].status = "failed"
          /\ \E k \in 1..Len(rooks_csv.rows) : rooks_csv.rows[k].year < y
          /\ \E k \in 1..Len(rooks_csv.rows) : rooks_csv.rows[k].year > y


\* C11: the configured delay (2 seconds) elapses between any two successive
\* HTTP requests to Spotrac: between a year page and each player page,
\* between player pages, and between one year's last request and the next
\* year's page, also when the previous year's request failed.
C11_DelayBetweenRequests ==
    \A k \in 1..Len(yy_event) :
        yy_event[k].prev # "none" => yy_event[k].gap >= Delay


\* C12 as stated: within one run a letter index URL whose request failed
\* (non-200) is not requested again for later players of the run, and no
\* index URL is requested more than once while consecutive players share the
\* same first letter.
C12_NoIndexRetry ==
    cbb_event.index.requested
        => /\ ~cbb_event.index.wasFailed
           /\ cbb_event.index.prevLetter # cbb_event.index.letter

\* C12 amended: an index URL whose request returned status 200 is not
\* requested again while consecutive players share the same first letter (a
\* request for the letter of the latest index request follows only a failed
\* one).
C12_NoIndexRequestAfterSuccess ==
    (cbb_event.index.requested
        /\ cbb_event.index.prevLetter = cbb_event.index.letter)
        => cbb_event.index.prevStatus = "non200"

\* C12 witness: a player was scraped without an index request, the latest
\* index request of the run being a successful one for the player's letter.
C12_Witness ==
    /\ cbb_event.kind = "player"
    /\ ~cbb_event.index.requested
    /\ cbb_event.reqs # <<>>
    /\ cbb_index.status = "ok"
    /\ cbb_index.letter = LastNameLetter(cbb_event.player)


\* Inning number of the play a model row was made from.
PlayInning(row) == IntOf(Tail(row.play.Inning))

PartitionsByInning(parts) ==
    \A k \in 1..Len(sp_model_data) :
        LET row == sp_model_data[k]
        IN  /\ row \in Range(parts.early) <=> PlayInning(row) \in 1..7
            /\ row \in Range(parts.late) <=> PlayInning(row) >= 8

\* C13: split_data_by_inning and split_inning_data put a model row in the
\* early partition exactly when its play occurred in innings 1 to 7 and in
\* the late partition exactly when it occurred in inning 8 or later, for
\* every half-inning and every out count 0 to 2.
C13_SplitByInning ==
    sp_stage = "split"
        => /\ PartitionsByInning(sp_split)
           /\ PartitionsByInning(sp_split_improved)

\* C14: the total number of games that create_model_data prints equals the
\* number of games in the play-by-play input, for every input of one or more
\* games.
C14_PrintedGamesIsGamesOfInput ==
    (cm_printed.printed /\ cm_games >= 1) => cm_printed.count = cm_games


\* C15: filter_drives returns exactly the drive-start rows (play_id =
\* drive_play_id_started) that have half_seconds_remaining >= min_time,
\* yardline_100 <= yard_line, score_differential <= max_score_diff and
\* drive_start_transition equal to the requested possession change type.
C15_FilterDrives ==
    nm_stage = "filtered"
        => LET claimed(row) ==
                   /\ row.play_id = row.drive_play_id_started
                   /\ row.half_seconds_remaining >= nm_args.min_time
                   /\ row.yardline_100 <= nm_args.yard_line
                   /\ row.score_differential <= nm_args.max_score_diff
                   /\ row.drive_start_transition
                        = nm_args.possession_change_type
           IN  nm_filtered = SelectSeq(nm_data, claimed)


\* C16: calculate_bunt_probabilities_with_assumptions computes X, Y, Z and W
\* over sacrifice bunt attempts only: the plays it counts are exactly the
\* plays that categorize_and_log_bunt_situations treats as bunt situations
\* (outs < 2, at least one runner on base, description mentioning a bunt).
C16_CountsBuntSituationsOnly ==
    bt_stage = "calculated"
        => bt_probabilities.bunt_data = bt_situations.bunt_data


\* C17: given a directory path as its argument, pullResultLogit.py processes
\* every CSV file in that directory and prints the three OPS values (all,
\* left-handed, right-handed hitters) for each file.
C17_DirectoryPrintsOpsOfEveryFile ==
    (op_arg = "directory" /\ op_stage # "setup")
        => /\ Len(op_printed) = Len(op_dir)
           /\ \A k \in 1..Len(op_dir) :
                \E j \in 1..Len(op_printed) :
                    op_printed[j] = compute_and_print_ops(op_dir[k], k)


\* Number of the games of the log in which team scored at most limit runs.
GamesAtMost(team, limit) ==
    Cardinality({k \in 1..Len(rs_lines) :
        \/ /\ rs_lines[k].visiting_team = team
           /\ IntOf(rs_lines[k].visiting_team_runs) <= limit
        \/ /\ rs_lines[k].home_team = team
           /\ IntOf(rs_lines[k].home_team_runs) <= limit})

\* C18: for every team, the number printed after '<=2:' equals the number of
\* that team's games in which it scored at most 2 runs, and the number after
\* '<=3:' the number of games in which it scored at most 3 runs.
C18_PrintedCountsAreAtMost ==
    rs_pc = "printed"
        => \A k \in 1..Len(rs_printed) :
               /\ rs_printed[k].le2 = GamesAtMost(rs_printed[k].team, 2)
               /\ rs_printed[k].le3 = GamesAtMost(rs_printed[k].team, 3)


\* C19: the list of play rows written by write_to_csv and re-read with
\* csv.DictReader yields the same rows in the same order, with the same
\* value in every field and Index equal to the 1-based position of the row.
C19_CsvRoundTrip ==
    ho_stage = "read"
        => /\ Len(ho_read) = Len(ho_data)
           /\ \A k \in 1..Len(ho_data) :
                /\ DOMAIN ho_read[k] = Range(Headers)
                /\ \A h \in Range(Tail(Headers)) :
                       ho_read[k][h] = ho_data[k][h]
                /\ ho_read[k]["Index"] = DigitsOf(k)

=============================================================================
